---------------------------- MODULE Spec2Model ----------------------------
(***************************************************************************)
(* A model of tutorials/quick_start.ipynb: the cells of the notebook run   *)
(* top to bottom (Spec), and the GCN class of its third code cell called   *)
(* with arbitrary arguments (SpecGCN).                                     *)
(*                                                                         *)
(* Tensors are modelled by their shape and by the layers that produced     *)
(* them; the random feature values and the learned weights are not         *)
(* modelled.                                                               *)
(***************************************************************************)
EXTENDS Integers, Sequences, FiniteSets

(***************************************************************************)
(* Bounds of the arguments SpecGCN draws.                                  *)
(***************************************************************************)
MaxLayers == 3
MaxWidth == 2
MaxRows == 2

(***************************************************************************)
(* Values of the notebook.                                                 *)
(***************************************************************************)
\* "not bound yet": a name of the notebook that no cell has assigned
None == [kind |-> "None"]

\* build_graph: num_node = 10
num_node == 10

\* edge_list with its last tuple left out
edge_list_short ==
    << <<2, 0>>, <<2, 1>>, <<3, 1>>, <<4, 0>>, <<5, 0>>,
       <<6, 0>>, <<6, 4>>, <<6, 5>>, <<7, 0>>, <<7, 1>>,
       <<7, 2>>, <<7, 3>>, <<8, 0>> >>

\* edge_list with (6, 5) mistyped as a second (6, 4)
edge_list_dup ==
    << <<2, 0>>, <<2, 1>>, <<3, 1>>, <<4, 0>>, <<5, 0>>,
       <<6, 0>>, <<6, 4>>, <<6, 4>>, <<7, 0>>, <<7, 1>>,
       <<7, 2>>, <<7, 3>>, <<8, 0>>, <<9, 7>> >>

\* build_graph: edge_list, the (src, dst) tuples
edge_list ==
    << <<2, 0>>, <<2, 1>>, <<3, 1>>, <<4, 0>>, <<5, 0>>,
       <<6, 0>>, <<6, 4>>, <<6, 5>>, <<7, 0>>, <<7, 1>>,
       <<7, 2>>, <<7, 3>>, <<8, 0>>, <<9, 7>> >>

\* build_graph: d = 16
d == 16

\* y with a third class written for node 7
y_list_three == <<0, 1, 1, 1, 0, 0, 0, 2, 0, 1>>

\* y = [0,1,1,1,0,0,0,1,0,1]
y_list == <<0, 1, 1, 1, 0, 0, 0, 1, 0, 1>>

\* GCN.__init__: num_layers=2, hidden_size=16
default_num_layers == 2
default_hidden_size == 16

\* gcn = GCN(16, 2): the positional arguments, no keyword given
gcn_call == [input_size |-> 16, num_class |-> 2, kw |-> {}]

\* for epoch in range(30)
NumEpochs == 30

\* range(1, n) in place of range(n)
range_from_one(n) == [k \in 1..(n - 1) |-> k]

\* range(n): 0, 1, ..., n - 1
range(n) == [k \in 1..n |-> k - 1]

\* the body with optim.step() written before loss.backward()
LoopBody_step_first == <<"forward", "loss", "step", "backward", "clear_grad", "print">>

\* the statements of the body of the training loop, in program order
LoopBody == <<"forward", "loss", "backward", "step", "clear_grad", "print">>

(***************************************************************************)
(* Arrays and tensors: rows x cols, and hist, the layers applied to the    *)
(* array since it was created, first applied first.                        *)
(***************************************************************************)
\* np.random.randn(rows, cols).astype("float32")
randn(rows, cols) == [kind |-> "Tensor", rows |-> rows, cols |-> cols, hist |-> << >>]

\* pgl.Graph(edges=..., num_nodes=..., node_feat={'nfeat': ...}, edge_feat={'efeat': ...})
Graph(edges, num_nodes, nfeat, efeat) ==
    [kind |-> "Graph", edges |-> edges, num_nodes |-> num_nodes,
     node_feat |-> [nfeat |-> nfeat], edge_feat |-> [efeat |-> efeat]]

\* g.num_edges
num_edges(graph) == Len(graph.edges)

\* build_graph with one weight per node in place of one per edge
build_graph_node_weights ==
    Graph(edge_list, num_node, randn(num_node, d), randn(num_node, 1))

\* build_graph()
build_graph ==
    LET feature == randn(num_node, d)
        edge_feature == randn(Len(edge_list), 1)
    IN  Graph(edge_list, num_node, feature, edge_feature)

(***************************************************************************)
(* The GCN class.                                                          *)
(***************************************************************************)
\* a layer object: pgl.nn.GCNConv(in, out, ...) or nn.Linear(in, out); idx is
\* the iteration of __init__'s loop that built it (0 for the linear layer)
Layer(kind, idx, in, out) == [kind |-> kind, idx |-> idx, in |-> in, out |-> out]

\* the value a keyword parameter is bound to: the one given in kw, a set of
\* <<name, value>> pairs, or its default
Bind(kw, name, default) ==
    IF \E p \in kw : p[1] = name
    THEN (CHOOSE p \in kw : p[1] = name)[2]
    ELSE default

\* __init__ that ignores the num_layers it is given
NewGCN_two_layers(call) ==
    [kind |-> "GCN",
     num_class |-> call.num_class,
     num_layers |-> default_num_layers,
     hidden_size |-> Bind(call.kw, "hidden_size", default_hidden_size),
     gcns |-> << >>,
     output |-> None]

\* __init__, before its loop: the fields set, self.gcns = nn.LayerList()
NewGCN(call) ==
    [kind |-> "GCN",
     num_class |-> call.num_class,
     num_layers |-> Bind(call.kw, "num_layers", default_num_layers),
     hidden_size |-> Bind(call.kw, "hidden_size", default_hidden_size),
     gcns |-> << >>,
     output |-> None]

\* __init__ whose two branches build the same layer
ConvAt_same_branch(i, input_size, hidden_size) ==
    Layer("GCNConv", i, input_size, hidden_size)

\* __init__: the layer appended by iteration i of the loop
ConvAt(i, input_size, hidden_size) ==
    IF i = 0
    THEN Layer("GCNConv", i, input_size, hidden_size)
    ELSE Layer("GCNConv", i, hidden_size, hidden_size)

\* __init__: self.output = nn.Linear(self.hidden_size, self.num_class)
OutputLayer(self) == Layer("Linear", 0, self.hidden_size, self.num_class)

\* m(graph, feature) for a GCNConv m: one row per node of the graph, of
\* width m.out; the call raises when the shapes do not fit
ApplyConv(m, graph, feature) ==
    IF feature.cols = m.in /\ feature.rows = graph.num_nodes
    THEN [feature EXCEPT !.cols = m.out,
                         !.hist = Append(@, [layer |-> m, nodes |-> graph.num_nodes])]
    ELSE None

\* self.output(feature): one row per row of the input, of width output.out;
\* the call raises when the widths do not fit
ApplyLinear(m, feature) ==
    IF feature.cols = m.in
    THEN [feature EXCEPT !.cols = m.out,
                         !.hist = Append(@, [layer |-> m, nodes |-> 0])]
    ELSE None

(***************************************************************************)
(* The training step.                                                      *)
(***************************************************************************)
\* criterion(logits, y): one label per row, each a class index
Criterion(lg, labels) ==
    IF lg.rows = Len(labels) /\ \A n \in 1..Len(labels) : labels[n] \in 0..(lg.cols - 1)
    THEN [kind |-> "Loss", epoch |-> lg.epoch]
    ELSE None

VARIABLES
    pc,       \* the statement the program is at
    ret,      \* where the call in progress returns to
    it,       \* how many values the loop has taken from range(NumEpochs)
    ip,       \* the statement of LoopBody the loop is at
    g,        \* g
    info,     \* the numbers the second code cell printed
    y,        \* y
    call,     \* the arguments of the call of GCN(...)
    gcn,      \* gcn (self, inside __init__ and forward)
    i,        \* i of __init__'s loop
    fwd,      \* forward's frame: graph, feature, k (layers of self.gcns applied)
    epoch,    \* epoch
    logits,   \* logits
    loss,     \* loss
    grad,     \* the epochs of the losses whose gradients are accumulated
    optim,    \* optim: steps applied, and the gradients each step used
    cnt,      \* how many times each statement of the loop has completed
    printed   \* the epochs of the 'epoch | loss' lines printed

vars == <<pc, ret, it, ip, g, info, y, call, gcn, i, fwd, epoch, logits, loss,
          grad, optim, cnt, printed>>

NoFrame == [graph |-> None, feature |-> None, k |-> 0, epoch |-> -1]

ZeroCnt == [forward |-> 0, loss |-> 0, backward |-> 0, step |-> 0, clear_grad |-> 0]

Init ==
    /\ pc = "cell_build"
    /\ ret = "none"
    /\ it = 0
    /\ ip = 0
    /\ g = None
    /\ info = << >>
    /\ y = None
    /\ call = None
    /\ gcn = None
    /\ i = 0
    /\ fwd = NoFrame
    /\ epoch = -1
    /\ logits = None
    /\ loss = None
    /\ grad = {}
    /\ optim = None
    /\ cnt = ZeroCnt
    /\ printed = << >>

(***************************************************************************)
(* The cells before the training loop.                                     *)
(***************************************************************************)
\* g = build_graph()
CellBuild ==
    /\ pc = "cell_build"
    /\ g' = build_graph
    /\ pc' = "cell_print"
    /\ UNCHANGED <<ret, it, ip, info, y, call, gcn, i, fwd, epoch, logits, loss,
                   grad, optim, cnt, printed>>

\* print(... % g.num_nodes); print(... % g.num_edges)
CellPrint ==
    /\ pc = "cell_print"
    /\ info' = <<g.num_nodes, num_edges(g)>>
    /\ pc' = "cell_labels"
    /\ UNCHANGED <<ret, it, ip, g, y, call, gcn, i, fwd, epoch, logits, loss,
                   grad, optim, cnt, printed>>

\* y = [...]; label = np.array(y, dtype="float32")
CellLabels ==
    /\ pc = "cell_labels"
    /\ y' = y_list
    /\ pc' = "cell_setup"
    /\ UNCHANGED <<ret, it, ip, g, info, call, gcn, i, fwd, epoch, logits, loss,
                   grad, optim, cnt, printed>>

\* g = g.tensor(); y = paddle.to_tensor(y); gcn = GCN(16, 2): the call
CellSetup ==
    /\ pc = "cell_setup"
    /\ call' = gcn_call
    /\ pc' = "gcn_new"
    /\ ret' = "cell_optim"
    /\ UNCHANGED <<it, ip, g, info, y, gcn, i, fwd, epoch, logits, loss,
                   grad, optim, cnt, printed>>

\* criterion = CrossEntropyLoss(); optim = Adam(...)
CellOptim ==
    /\ pc = "cell_optim"
    /\ optim' = [steps |-> 0, last |-> {}, at |-> -1]
    /\ pc' = "cell_train"
    /\ UNCHANGED <<ret, it, ip, g, info, y, call, gcn, i, fwd, epoch, logits, loss,
                   grad, cnt, printed>>

(***************************************************************************)
(* GCN.__init__ and GCN.forward, a step per iteration of their loops.      *)
(***************************************************************************)
\* __init__ up to self.gcns = nn.LayerList()
GCNNew ==
    /\ pc = "gcn_new"
    /\ gcn' = NewGCN(call)
    /\ i' = 0
    /\ pc' = "gcn_init"
    /\ UNCHANGED <<ret, it, ip, g, info, y, call, fwd, epoch, logits, loss,
                   grad, optim, cnt, printed>>

\* for i in range(self.num_layers): self.gcns.append(...)
GCNInitLoop ==
    /\ pc = "gcn_init"
    /\ i < gcn.num_layers
    /\ gcn' = [gcn EXCEPT !.gcns = Append(@, ConvAt(i, call.input_size, gcn.hidden_size))]
    /\ i' = i + 1
    /\ UNCHANGED <<pc, ret, it, ip, g, info, y, call, fwd, epoch, logits, loss,
                   grad, optim, cnt, printed>>

\* the loop is over: self.output = nn.Linear(...), and __init__ returns
GCNInitOutput ==
    /\ pc = "gcn_init"
    /\ i >= gcn.num_layers
    /\ gcn' = [gcn EXCEPT !.output = OutputLayer(gcn)]
    /\ pc' = ret
    /\ UNCHANGED <<ret, it, ip, g, info, y, call, i, fwd, epoch, logits, loss,
                   grad, optim, cnt, printed>>

\* for m in self.gcns: feature = m(graph, feature)
ForwardLayer ==
    /\ pc = "forward"
    /\ fwd.k < Len(gcn.gcns)
    /\ LET out == ApplyConv(gcn.gcns[fwd.k + 1], fwd.graph, fwd.feature)
       IN  IF out = None
           THEN pc' = "error" /\ fwd' = fwd
           ELSE pc' = pc /\ fwd' = [fwd EXCEPT !.feature = out, !.k = @ + 1]
    /\ UNCHANGED <<ret, it, ip, g, info, y, call, gcn, i, epoch, logits, loss,
                   grad, optim, cnt, printed>>

\* the loop is over: logits = self.output(feature); return logits
ForwardOutput ==
    /\ pc = "forward"
    /\ fwd.k >= Len(gcn.gcns)
    /\ LET out == ApplyLinear(gcn.output, fwd.feature)
       IN  IF out = None
           THEN pc' = "error" /\ logits' = logits /\ cnt' = cnt
           ELSE /\ pc' = ret
                /\ logits' = [kind |-> "Tensor", rows |-> out.rows, cols |-> out.cols,
                               hist |-> out.hist, epoch |-> fwd.epoch]
                /\ cnt' = [cnt EXCEPT !.forward = @ + 1]
    /\ UNCHANGED <<ret, it, ip, g, info, y, call, gcn, i, fwd, epoch, loss,
                   grad, optim, printed>>

(***************************************************************************)
(* The training loop.                                                      *)
(***************************************************************************)
\* gcn.train()
CellTrain ==
    /\ pc = "cell_train"
    /\ pc' = "for"
    /\ UNCHANGED <<ret, it, ip, g, info, y, call, gcn, i, fwd, epoch, logits, loss,
                   grad, optim, cnt, printed>>

\* for epoch in range(30): the next value
ForNext ==
    /\ pc = "for"
    /\ it < Len(range(NumEpochs))
    /\ epoch' = range(NumEpochs)[it + 1]
    /\ it' = it + 1
    /\ ip' = 1
    /\ pc' = "body"
    /\ UNCHANGED <<ret, g, info, y, call, gcn, i, fwd, logits, loss,
                   grad, optim, cnt, printed>>

\* for epoch in range(30): the range is exhausted
ForExit ==
    /\ pc = "for"
    /\ it >= Len(range(NumEpochs))
    /\ pc' = "done"
    /\ UNCHANGED <<ret, it, ip, g, info, y, call, gcn, i, fwd, epoch, logits, loss,
                   grad, optim, cnt, printed>>

\* the statement of the body the loop is at
AtStmt(s) == pc = "body" /\ LoopBody[ip] = s

\* where the program is after the statement at ip
AfterStmt == IF ip + 1 > Len(LoopBody) THEN "for" ELSE "body"

\* logits = gcn(g, g.node_feat['nfeat']): the call
StmtForward ==
    /\ AtStmt("forward")
    /\ fwd' = [graph |-> g, feature |-> g.node_feat.nfeat, k |-> 0, epoch |-> epoch]
    /\ pc' = "forward"
    /\ ret' = AfterStmt
    /\ ip' = ip + 1
    /\ UNCHANGED <<it, g, info, y, call, gcn, i, epoch, logits, loss,
                   grad, optim, cnt, printed>>

\* loss = criterion(logits, y)
StmtLoss ==
    /\ AtStmt("loss")
    /\ IF logits = None \/ Criterion(logits, y) = None
       THEN pc' = "error" /\ UNCHANGED <<ip, loss, cnt>>
       ELSE /\ loss' = Criterion(logits, y)
            /\ cnt' = [cnt EXCEPT !.loss = @ + 1]
            /\ pc' = AfterStmt
            /\ ip' = ip + 1
    /\ UNCHANGED <<ret, it, g, info, y, call, gcn, i, fwd, epoch, logits,
                   grad, optim, printed>>

\* loss.backward()
StmtBackward ==
    /\ AtStmt("backward")
    /\ IF loss = None
       THEN pc' = "error" /\ UNCHANGED <<ip, grad, cnt>>
       ELSE /\ grad' = grad \cup {loss.epoch}
            /\ cnt' = [cnt EXCEPT !.backward = @ + 1]
            /\ pc' = AfterStmt
            /\ ip' = ip + 1
    /\ UNCHANGED <<ret, it, g, info, y, call, gcn, i, fwd, epoch, logits, loss,
                   optim, printed>>

\* optim.step()
StmtStep ==
    /\ AtStmt("step")
    /\ optim' = [steps |-> optim.steps + 1, last |-> grad, at |-> epoch]
    /\ cnt' = [cnt EXCEPT !.step = @ + 1]
    /\ pc' = AfterStmt
    /\ ip' = ip + 1
    /\ UNCHANGED <<ret, it, g, info, y, call, gcn, i, fwd, epoch, logits, loss,
                   grad, printed>>

\* optim.clear_grad()
StmtClearGrad ==
    /\ AtStmt("clear_grad")
    /\ grad' = {}
    /\ cnt' = [cnt EXCEPT !.clear_grad = @ + 1]
    /\ pc' = AfterStmt
    /\ ip' = ip + 1
    /\ UNCHANGED <<ret, it, g, info, y, call, gcn, i, fwd, epoch, logits, loss,
                   optim, printed>>

\* print("epoch: %s | loss: %.4f" % (epoch, loss.numpy()[0]))
StmtPrint ==
    /\ AtStmt("print")
    /\ IF loss = None
       THEN pc' = "error" /\ UNCHANGED <<ip, printed>>
       ELSE /\ printed' = Append(printed, [epoch |-> epoch, loss |-> loss.epoch])
            /\ pc' = AfterStmt
            /\ ip' = ip + 1
    /\ UNCHANGED <<ret, it, g, info, y, call, gcn, i, fwd, epoch, logits, loss,
                   grad, optim, cnt>>

Next ==
    \/ CellBuild
    \/ CellPrint
    \/ CellLabels
    \/ CellSetup
    \/ GCNNew
    \/ GCNInitLoop
    \/ GCNInitOutput
    \/ CellOptim
    \/ CellTrain
    \/ ForNext
    \/ ForExit
    \/ StmtForward
    \/ ForwardLayer
    \/ ForwardOutput
    \/ StmtLoss
    \/ StmtBackward
    \/ StmtStep
    \/ StmtClearGrad
    \/ StmtPrint

\* the notebook, its cells run once, top to bottom
Spec == Init /\ [][Next]_vars

\* the interpreter runs the next statement as long as there is one
FairSpec == Spec /\ WF_vars(Next)

(***************************************************************************)
(* The GCN class on its own: GCN(input_size, num_class, **kw) built with   *)
(* any arguments within the bounds, then called once on a graph and a      *)
(* feature array of any shape within the bounds.                           *)
(***************************************************************************)
\* the widths drawn: small ones, and the default hidden size
Widths == (1..MaxWidth) \cup {default_hidden_size}

\* the keyword arguments drawn: num_layers and hidden_size, each given or not
Kwargs ==
    { nl \cup hs :
        nl \in {{}} \cup { {<<"num_layers", n>>} : n \in 0..MaxLayers },
        hs \in {{}} \cup { {<<"hidden_size", h>>} : h \in 1..MaxWidth } }

Calls ==
    { [input_size |-> a, num_class |-> c, kw |-> kw] :
        a \in Widths, c \in 1..MaxWidth, kw \in Kwargs }

Inputs ==
    { Graph(<< >>, n, randn(r, c), randn(0, 1)) :
        n \in 1..MaxRows, r \in 1..MaxRows, c \in Widths }

InitGCN ==
    /\ pc = "gcn_new"
    /\ ret = "constructed"
    /\ it = 0
    /\ ip = 0
    /\ g \in Inputs
    /\ info = << >>
    /\ y = None
    /\ call \in Calls
    /\ gcn = None
    /\ i = 0
    /\ fwd = NoFrame
    /\ epoch = 0
    /\ logits = None
    /\ loss = None
    /\ grad = {}
    /\ optim = None
    /\ cnt = ZeroCnt
    /\ printed = << >>

\* gcn(g, g.node_feat['nfeat']) on the object just built
CallForward ==
    /\ pc = "constructed"
    /\ fwd' = [graph |-> g, feature |-> g.node_feat.nfeat, k |-> 0, epoch |-> epoch]
    /\ pc' = "forward"
    /\ ret' = "returned"
    /\ UNCHANGED <<it, ip, g, info, y, call, gcn, i, epoch, logits, loss,
                   grad, optim, cnt, printed>>

NextGCN ==
    \/ GCNNew
    \/ GCNInitLoop
    \/ GCNInitOutput
    \/ CallForward
    \/ ForwardLayer
    \/ ForwardOutput

SpecGCN == InitGCN /\ [][NextGCN]_vars

(***************************************************************************)
(* Properties.                                                             *)
(***************************************************************************)
\* C1: the graph build_graph() returns has exactly 10 nodes and exactly 14
\* edges: num_nodes is 10, the edge list handed to the graph constructor
\* holds 14 tuples, and these are the two numbers the next cell prints.
C1_TenNodesFourteenEdges ==
    g # None =>
        /\ g.num_nodes = 10
        /\ Len(g.edges) = 14
        /\ info # << >> => info = <<10, 14>>

C1_Witness == pc = "cell_labels" /\ g # None /\ info # << >>

\* C2: in every epoch the statements run in the order forward, loss,
\* backward, step. Each has completed once per epoch entered, or once less,
\* and never more often than the one before it; the loss is the loss of the
\* logits of the epoch's own forward pass, the gradient step() applies is
\* the one backward() accumulated from that loss, and no step precedes its
\* epoch's backward.
C2_ForwardLossBackwardStep ==
    /\ \A s \in DOMAIN cnt : it >= 1 => cnt[s] \in {it - 1, it}
    /\ cnt.step <= cnt.backward
    /\ cnt.backward <= cnt.loss
    /\ cnt.loss <= cnt.forward
    /\ cnt.forward <= cnt.step + 1
    /\ (cnt.forward >= 1 /\ cnt.forward = it) => logits.epoch = epoch
    /\ (cnt.loss >= 1 /\ cnt.loss = it) => loss.epoch = epoch /\ loss.epoch = logits.epoch
    /\ (cnt.backward >= 1 /\ cnt.backward = it /\ cnt.clear_grad < it) => grad = {epoch}
    /\ optim # None =>
          /\ optim.steps = cnt.step
          /\ optim.steps >= 1 => optim.last = {optim.at}
          /\ (cnt.step >= 1 /\ cnt.step = it) => optim.at = epoch

C2_Witness ==
    /\ pc = "body"
    /\ LoopBody[ip] = "clear_grad"
    /\ epoch = 1
    /\ cnt.step = 2
    /\ optim.last = {1}

\* the 'epoch | loss' lines printed so far are those of epochs 0, 1, 2, ...
\* in this order, each with the loss of its own epoch
PrintedInOrder ==
    \A n \in 1..Len(printed) : printed[n] = [epoch |-> n - 1, loss |-> n - 1]

\* C3: the training loop runs 30 iterations and terminates. The epochs are
\* 0, 1, ..., 29 in increasing order, never more than 30 steps are applied
\* or lines printed, the program reaches its end, and at its end exactly 30
\* optimizer steps have been applied and exactly 30 lines printed, one per
\* epoch.
C3_ThirtyEpochsThenDone ==
    /\ [](/\ epoch \in -1..29
          /\ cnt.step <= 30
          /\ Len(printed) <= 30
          /\ PrintedInOrder)
    /\ [][epoch' # epoch => epoch' = epoch + 1]_vars
    /\ <>(pc = "done")
    /\ [](pc = "done" =>
            /\ it = 30
            /\ epoch = 29
            /\ cnt.step = 30
            /\ optim.steps = 30
            /\ Len(printed) = 30)

C3_Witness == pc = "done" /\ Len(printed) = 30 /\ optim.steps = 30

\* the num_layers and hidden_size the call of GCN(...) asks for
AskedLayers ==
    IF \E p \in call.kw : p[1] = "num_layers"
    THEN (CHOOSE p \in call.kw : p[1] = "num_layers")[2]
    ELSE 2

AskedHidden ==
    IF \E p \in call.kw : p[1] = "hidden_size"
    THEN (CHOOSE p \in call.kw : p[1] = "hidden_size")[2]
    ELSE 16

\* __init__ has returned
Constructed == pc \in {"constructed", "forward", "returned", "error"}

\* C4: for every num_layers n >= 1 (2 when it is not given), __init__ builds
\* exactly n GCNConv layers and one Linear layer; forward applies the n
\* GCNConv layers in construction order, each on the graph it was given and
\* on the output of the one before, and then the Linear layer once, last,
\* and returns its output.
C4_StackedLayersThenLinear ==
    (call # None /\ AskedLayers >= 1) =>
        /\ Constructed =>
              /\ Len(gcn.gcns) = AskedLayers
              /\ \A k \in 1..Len(gcn.gcns) :
                    gcn.gcns[k].kind = "GCNConv" /\ gcn.gcns[k].idx = k - 1
              /\ gcn.output # None
              /\ gcn.output.kind = "Linear"
        /\ pc = "forward" =>
              /\ fwd.k <= AskedLayers
              /\ Len(fwd.feature.hist) = fwd.k
              /\ \A k \in 1..fwd.k :
                    fwd.feature.hist[k] = [layer |-> gcn.gcns[k], nodes |-> g.num_nodes]
        /\ pc = "returned" =>
              /\ Len(logits.hist) = AskedLayers + 1
              /\ \A k \in 1..AskedLayers :
                    logits.hist[k] = [layer |-> gcn.gcns[k], nodes |-> g.num_nodes]
              /\ logits.hist[AskedLayers + 1].layer = gcn.output

C4_Witness ==
    /\ pc = "returned"
    /\ AskedLayers = 3
    /\ Len(gcn.gcns) = 3
    /\ Len(logits.hist) = 4

\* C5: y has one entry per node of the graph, 10 of them, every entry is 0
\* or 1, both occur, and every entry is less than the num_class, 2, the
\* classifier is built with.
C5_BinaryLabels ==
    y # None =>
        /\ Len(y) = 10
        /\ g # None => Len(y) = g.num_nodes
        /\ \A n \in 1..Len(y) : y[n] \in {0, 1}
        /\ \E n \in 1..Len(y) : y[n] = 0
        /\ \E n \in 1..Len(y) : y[n] = 1
        /\ gcn # None =>
              /\ gcn.num_class = 2
              /\ \A n \in 1..Len(y) : y[n] < gcn.num_class

C5_Witness == pc = "cell_optim" /\ y # None /\ gcn # None /\ gcn.num_class = 2

\* C6: 'nfeat' has num_node rows of width 16, 'efeat' has one row of width 1
\* per tuple of the edge list, and the classifier is built with input_size
\* 16, the width of 'nfeat'.
C6_FeatureShapes ==
    g # None =>
        /\ g.node_feat.nfeat.rows = g.num_nodes
        /\ g.node_feat.nfeat.cols = 16
        /\ g.edge_feat.efeat.rows = Len(g.edges)
        /\ g.edge_feat.efeat.cols = 1
        /\ call # None =>
              /\ call.input_size = 16
              /\ call.input_size = g.node_feat.nfeat.cols
        /\ (gcn # None /\ Len(gcn.gcns) >= 1) =>
              gcn.gcns[1].in = g.node_feat.nfeat.cols

C6_Witness ==
    /\ pc = "cell_train"
    /\ g.edge_feat.efeat.rows = 14
    /\ Len(gcn.gcns) = 2
    /\ gcn.gcns[1].in = 16

\* C7: every edge of the graph has both endpoints in 0..9, the nodes of the
\* graph, and src > dst (so no self-loop and no cycle); no edge occurs
\* twice; every node 0..9 is an endpoint of an edge.
C7_EdgeListWellFormed ==
    g # None =>
        /\ \A n \in 1..Len(g.edges) :
              /\ g.edges[n][1] \in 0..9
              /\ g.edges[n][2] \in 0..9
              /\ g.edges[n][1] \in 0..(g.num_nodes - 1)
              /\ g.edges[n][2] \in 0..(g.num_nodes - 1)
              /\ g.edges[n][1] # g.edges[n][2]
              /\ g.edges[n][1] > g.edges[n][2]
        /\ \A m, n \in 1..Len(g.edges) : g.edges[m] = g.edges[n] => m = n
        /\ \A v \in 0..9 :
              \E n \in 1..Len(g.edges) : g.edges[n][1] = v \/ g.edges[n][2] = v

C7_Witness == pc = "cell_print" /\ g # None /\ Len(g.edges) > 0

\* C8: for num_layers >= 1 and positive sizes, the first GCNConv layer maps
\* input_size to hidden_size, every later one hidden_size to hidden_size,
\* the Linear layer hidden_size to num_class, so each layer takes the width
\* the layer before it gives; and forward, given one row of width
\* input_size per node, raises nothing and returns one row per node with
\* num_class columns.
C8_WidthsChain ==
    (call # None /\ AskedLayers >= 1) =>
        /\ Constructed =>
              /\ gcn.gcns[1].in = call.input_size
              /\ \A k \in 1..Len(gcn.gcns) : gcn.gcns[k].out = AskedHidden
              /\ \A k \in 2..Len(gcn.gcns) :
                    /\ gcn.gcns[k].in = AskedHidden
                    /\ gcn.gcns[k].in = gcn.gcns[k - 1].out
              /\ gcn.output.in = AskedHidden
              /\ gcn.output.in = gcn.gcns[Len(gcn.gcns)].out
              /\ gcn.output.out = call.num_class
        /\ (/\ g.node_feat.nfeat.rows = g.num_nodes
            /\ g.node_feat.nfeat.cols = call.input_size) =>
              /\ pc # "error"
              /\ pc = "returned" =>
                    /\ logits.rows = g.num_nodes
                    /\ logits.cols = call.num_class

C8_Witness ==
    /\ pc = "returned"
    /\ Len(gcn.gcns) >= 2
    /\ call.input_size # gcn.hidden_size
    /\ gcn.hidden_size # call.num_class
    /\ logits.rows = g.num_nodes
    /\ logits.cols = call.num_class

=============================================================================
